---- MODULE Spec2Model ----
(***************************************************************************)
(* Model of tools/dogfooding/src/package_resolved.py: the class            *)
(* PackageResolvedFile, a handle on a `Package.resolved` JSON document.    *)
(*                                                                         *)
(* Python dictionaries are modelled as records that carry their insertion  *)
(* order in the field `order`; the `state` dictionary of a pin lives on a  *)
(* heap and is held by reference, so that copying and aliasing differ.     *)
(* The file on disk is a JSON text: a tree of tokens with the textual      *)
(* order of the members of every object, its indentation and its trailer.  *)
(*                                                                         *)
(* Both exceptions of the class are raised as a plain Exception; the model *)
(* names each after its raise: "UnsupportedFormatError" is the raise of    *)
(* __init__, "PinNotFoundError" the raise of __get_package.  What open,    *)
(* json.load and write raise is passed on under its own name.              *)
(***************************************************************************)
EXTENDS Integers, Sequences, FiniteSets, TLC

\* Bounds of the model.
MaxPins == 2
MaxOps == 2

\* PackageResolvedFile.__SUPPORTED_PACKAGE_RESOLVED_VERSION
SUPPORTED_PACKAGE_RESOLVED_VERSION == 1

-----------------------------------------------------------------------------
(* Python values                                                           *)

None == [type |-> "NoneType"]
Str(s) == [type |-> "str", value |-> s]

Range(s) == {s[i] : i \in DOMAIN s}

\* The inputs of the model.
PinNames == {"DatadogSDK", "Kronos"}
QueryNames == PinNames \cup {"Alamofire"}
Versions == {1, 2}
BranchValues == {None, Str("dogfooding")}
RevisionValues == {None, Str("abc123")}
VersionValues == {None, Str("1.0.0")}
StateKeys == {"branch", "revision", "version"}

\* A resolution state as a plain value (no insertion order, no identity).
Triple(b, r, v) == [branch |-> b, revision |-> r, version |-> v]
ReleasedState == Triple(None, None, Str("1.0.0"))
DogfoodedState == Triple(Str("dogfooding"), Str("abc123"), None)
InitialStates == {ReleasedState, DogfoodedState}

-----------------------------------------------------------------------------
(* JSON texts                                                              *)

JNull == [json |-> "null"]
JString(s) == [json |-> "string", chars |-> s]
JNumber(n) == [json |-> "number", digits |-> n]


\* Every key of the format, in code point order (the order of sorted()).
SortedKeys == <<"branch", "object", "package", "pins", "repositoryURL",
                "revision", "state", "version">>

\* sorted(keys): the keys of one object in code point order.
SortKeys(keys) == SelectSeq(SortedKeys, LAMBDA k : k \in Range(keys))

\* The key order of a text some other way than sorted (a hand-edited file).
Reverse(s) == [i \in 1..Len(s) |-> s[Len(s) + 1 - i]]

\* As EncodeValue, but None is written as the string "null".
EncodeValueQuoted(v) ==
    IF v.type = "NoneType" THEN JString("null") ELSE JString(v.value)

\* json.dump of a string-or-None value, and json.load of its token.
EncodeValue(v) == IF v.type = "NoneType" THEN JNull ELSE JString(v.value)
DecodeToken(t) == IF t.json = "null" THEN None ELSE Str(t.chars)

\* json.load: the dictionaries take the order of the members in the text;
\* the state dictionary of pin i is a fresh object, at heap address i.
LoadState(t) ==
    [order |-> t.order,
     branch |-> DecodeToken(t.branch),
     revision |-> DecodeToken(t.revision),
     version |-> DecodeToken(t.version)]

LoadPin(t, addr) ==
    [order |-> t.order,
     package |-> DecodeToken(t.package),
     repositoryURL |-> DecodeToken(t.repositoryURL),
     state |-> addr]

json_load(root) ==
    [packages |->
        [order |-> root.order,
         version |-> root.version.digits,
         object |->
            [order |-> root.object.order,
             pins |-> [i \in 1..Len(root.object.pins) |->
                          LoadPin(root.object.pins[i], i)]]],
     heap |-> [a \in 1..Len(root.object.pins) |->
                  LoadState(root.object.pins[a].state)]]

\* json.dump(..., sort_keys=True): every object is written with its keys
\* sorted; a list is written in its own order.
DumpState(d) ==
    [order |-> SortKeys(d.order),
     branch |-> EncodeValue(d.branch),
     revision |-> EncodeValue(d.revision),
     version |-> EncodeValue(d.version)]

DumpPin(p, h) ==
    [order |-> SortKeys(p.order),
     package |-> EncodeValue(p.package),
     repositoryURL |-> EncodeValue(p.repositoryURL),
     state |-> DumpState(h[p.state])]

\* As DumpPins, but the pins are written sorted by package name.
DumpPinsSorted(pins, h) ==
    LET dumped == [i \in 1..Len(pins) |-> DumpPin(pins[i], h)]
    IN  SelectSeq(dumped, LAMBDA t : t.package.chars = "DatadogSDK")
            \o SelectSeq(dumped, LAMBDA t : t.package.chars # "DatadogSDK")

DumpPins(pins, h) == [i \in 1..Len(pins) |-> DumpPin(pins[i], h)]

json_dump(pkgs, h) ==
    [order |-> SortKeys(pkgs.order),
     version |-> JNumber(pkgs.version),
     object |->
        [order |-> SortKeys(pkgs.object.order),
         pins |-> DumpPins(pkgs.object.pins, h)]]

\* The contents of the file at `path`: a JSON text with its layout, or the
\* remains of a write that stopped after the file was truncated.
Text(root, indent, trailer) ==
    [kind |-> "json", root |-> root, indent |-> indent, trailer |-> trailer]
Corrupt == [kind |-> "corrupt"]

\* The documents the model starts from: any version, up to MaxPins pins
\* with names drawn from PinNames (so names may repeat), the pins taking the
\* two InitialStates in turn from either one, written with sorted keys or in
\* another key order.
Styles == {"canonical", "edited"}
Order(keys, style) ==
    IF style = "canonical" THEN SortKeys(keys) ELSE Reverse(SortKeys(keys))

\* A state value as the author of the file wrote it: null or a string.
Token(v) == IF v = None THEN JNull ELSE JString(v.value)

StateText(t, style) ==
    [order |-> Order(<<"branch", "revision", "version">>, style),
     branch |-> Token(t.branch),
     revision |-> Token(t.revision),
     version |-> Token(t.version)]

PinText(name, i, t, style) ==
    [order |-> Order(<<"package", "repositoryURL", "state">>, style),
     package |-> JString(name),
     repositoryURL |-> JString("https://github.com/repo" \o ToString(i)),
     state |-> StateText(t, style)]

RootText(version, names, states, style) ==
    [order |-> Order(<<"object", "version">>, style),
     version |-> JNumber(version),
     object |->
        [order |-> <<"pins">>,
         pins |-> [i \in 1..Len(names) |->
                      PinText(names[i], i, states[i], style)]]]

Alternate(n, first) ==
    [i \in 1..n |-> IF i % 2 = 1 THEN first
                   ELSE CHOOSE t \in InitialStates : t # first]

InitialFiles ==
    UNION {{Text(RootText(version, names, Alternate(n, first), style),
                 IF style = "canonical" THEN 2 ELSE 4,
                 IF style = "canonical" THEN "\n" ELSE "") :
              version \in Versions, style \in Styles,
              names \in [1..n -> PinNames],
              first \in InitialStates} : n \in 0..MaxPins}

-----------------------------------------------------------------------------
(* The heap of state dictionaries                                          *)

NewAddr(h) == CHOOSE a \in 1..(Cardinality(DOMAIN h) + 1) : a \notin DOMAIN h

\* As deepcopy, but the object itself is handed out.
SameObject(h, a) == [heap |-> h, ref |-> a]

\* copy.deepcopy of the dictionary at address a: a new object with equal
\* items (its values are strings or None, which are immutable).
deepcopy(h, a) == [heap |-> h @@ (NewAddr(h) :> h[a]), ref |-> NewAddr(h)]

\* d[k] = v: an existing key keeps its place, a new key goes last.
SetItem(d, k, v) ==
    IF k \in Range(d.order)
    THEN [d EXCEPT ![k] = v]
    ELSE [(k :> v) @@ d EXCEPT !.order = Append(d.order, k)]

\* d.items(), and the symmetric difference of two sets (the operator ^).
items(d) == {<<k, d[k]>> : k \in Range(d.order)}
SymDiff(A, B) == (A \ B) \cup (B \ A)

\* The objects of h that are still referenced once the locals of a call are
\* gone: the states of the pins and the value the caller holds.
Collect(h, pkgs, held) ==
    [a \in (DOMAIN h) \cap
            ({pkgs.object.pins[i].state : i \in DOMAIN pkgs.object.pins}
                \cup held) |-> h[a]]

-----------------------------------------------------------------------------
(* The state                                                               *)

VARIABLES
    file,       \* the contents of the file at self.path
    handle,     \* "ok" when the caller holds a constructed handle, else "none"
    packages,   \* self.packages of the object last constructed
    heap,       \* the state dictionaries, by address
    ret,        \* the address of the value read_dependency returned, 0 if none
    last,       \* the last call: its name, the package named, what it
                \* raised, what it printed, what it returned
    nops,       \* the number of calls made on handles so far
    loaded,     \* history: the pins as the handle loaded them
    expected,   \* history: per package name, the state last given to it
    previous    \* history: right after __init__, what it replaced

vars == <<file, handle, packages, heap, ret, last, nops, loaded, expected,
          previous>>

NoPackages == [type |-> "unset"]
NoHeap == [a \in {} |-> None]

Call(op, package_name, raised, notice, returned) ==
    [op |-> op, package_name |-> package_name, raised |-> raised,
     notice |-> notice, returned |-> returned]

\* The pins of a document as plain values: names, URLs and state triples.
StateValue(d) == Triple(d.branch, d.revision, d.version)
PinValue(p, h) ==
    [package |-> p.package, repositoryURL |-> p.repositoryURL,
     state |-> StateValue(h[p.state])]
PinValues(pkgs, h) ==
    [i \in 1..Len(pkgs.object.pins) |-> PinValue(pkgs.object.pins[i], h)]

\* The first pin of a list of pin values that has the given name.
NamesOf(pv) == {pv[i].package.value : i \in DOMAIN pv}
FirstNamed(pv, name) ==
    pv[CHOOSE i \in DOMAIN pv :
          /\ pv[i].package = Str(name)
          /\ \A j \in 1..(i - 1) : pv[j].package # Str(name)]
StatesByName(pv) == [name \in NamesOf(pv) |-> FirstNamed(pv, name).state]

\* What the caller had when it constructed a handle anew: its last call,
\* the pins it had loaded, their values then and the states it had given.
Previous(call, pins, values, states) ==
    [call |-> call, loaded |-> pins, values |-> values, expected |-> states]
NoPrevious ==
    Previous(Call("", "", "", "", <<>>), <<>>, <<>>, StatesByName(<<>>))

Init ==
    /\ file \in InitialFiles
    /\ handle = "none"
    /\ packages = NoPackages
    /\ heap = NoHeap
    /\ ret = 0
    /\ last = Call("start", "", "", "", <<>>)
    /\ nops = 0
    /\ loaded = <<>>
    /\ expected = StatesByName(<<>>)
    /\ previous = NoPrevious

-----------------------------------------------------------------------------
(* The operations of PackageResolvedFile                                   *)

\* __init__(path): the file is parsed into self.packages and the version is
\* checked afterwards; the caller gets the handle only if nothing is raised.
\* A handle the caller held before, and a value it had read, are dropped.
\* As UnsupportedVersion, but only older formats are refused.
OlderVersion(version) == version < SUPPORTED_PACKAGE_RESOLVED_VERSION

UnsupportedVersion(version) == version # SUPPORTED_PACKAGE_RESOLVED_VERSION

__init__ ==
    /\ ret' = 0
    /\ UNCHANGED <<file, nops>>
    /\ previous' = Previous(last, loaded,
                            IF handle = "ok" THEN PinValues(packages, heap)
                            ELSE <<>>,
                            expected)
    /\ IF file.kind # "json"
       THEN /\ packages' = NoPackages
            /\ heap' = NoHeap
            /\ handle' = "none"
            /\ loaded' = <<>>
            /\ expected' = StatesByName(<<>>)
            /\ last' = Call("__init__", "", "JSONDecodeError", "Opening", <<>>)
       ELSE LET doc == json_load(file.root)
                version == doc.packages.version
            IN  /\ packages' = doc.packages
                /\ heap' = doc.heap
                /\ loaded' = PinValues(doc.packages, doc.heap)
                /\ expected' = StatesByName(PinValues(doc.packages, doc.heap))
                /\ IF UnsupportedVersion(version)
                   THEN /\ handle' = "none"
                        /\ last' = Call("__init__", "", "UnsupportedFormatError",
                                        "Opening", <<>>)
                   ELSE /\ handle' = "ok"
                        /\ last' = Call("__init__", "", "", "Opening", <<>>)

\* The indexes of the pins named package_name, in list order.
package_pins(pkgs, package_name) ==
    SelectSeq([index \in 1..Len(pkgs.object.pins) |-> index],
              LAMBDA index : pkgs.object.pins[index].package = Str(package_name))

\* As __get_package, but a name no pin has falls back on the first pin.
GetPackageOrFirst(pkgs, package_name) ==
    LET pins == package_pins(pkgs, package_name)
    IN  IF Len(pkgs.object.pins) = 0
        THEN [raised |-> "PinNotFoundError", package_pin_index |-> 0]
        ELSE [raised |-> "",
              package_pin_index |-> IF Len(pins) = 0 THEN 1 ELSE pins[1]]

\* As __get_package, but the last pin with the name is taken.
GetPackageLast(pkgs, package_name) ==
    LET pins == package_pins(pkgs, package_name)
    IN  IF Len(pins) = 0
        THEN [raised |-> "PinNotFoundError", package_pin_index |-> 0]
        ELSE [raised |-> "", package_pin_index |-> pins[Len(pins)]]

\* __get_package(package_name): the first pin with that name (its index in
\* the list, which is the pin itself and no copy), or an exception.
__get_package(pkgs, package_name) ==
    LET pins == package_pins(pkgs, package_name)
    IN  IF Len(pins) = 0
        THEN [raised |-> "PinNotFoundError", package_pin_index |-> 0]
        ELSE [raised |-> "", package_pin_index |-> pins[1]]

Held == IF ret = 0 THEN {} ELSE {ret}

\* As Overwrite, but a field is written only when its new value is given.
OverwriteGiven(h, a, new_branch, new_revision, new_version) ==
    LET Put(d, k, v) == IF v = None THEN d ELSE SetItem(d, k, v)
    IN  [h EXCEPT ![a] = Put(Put(Put(@, "branch", new_branch),
                                 "revision", new_revision),
                             "version", new_version)]

\* As Overwrite, but the fields are written on a copy of the state.
OverwriteCopy(h, a, new_branch, new_revision, new_version) == h

\* package['state'][...] = ... for the three fields, on the object at a.
Overwrite(h, a, new_branch, new_revision, new_version) ==
    [h EXCEPT ![a] = SetItem(SetItem(SetItem(@, "branch", new_branch),
                                     "revision", new_revision),
                             "version", new_version)]

\* As Notice, but the keys of the snapshots are compared, not the items.
NoticeByKeys(old_state, new_state) ==
    IF Cardinality(SymDiff(Range(old_state.order), Range(new_state.order))) > 0
    THEN "Updated"
    ELSE "up-to-date"

\* What update_dependency prints, from the two snapshots.
Notice(old_state, new_state) ==
    IF Cardinality(SymDiff(items(old_state), items(new_state))) > 0
    THEN "Updated"
    ELSE "up-to-date"

update_dependency(package_name, new_branch, new_revision, new_version) ==
    /\ handle = "ok"
    /\ nops < MaxOps
    /\ nops' = nops + 1
    /\ previous' = NoPrevious
    /\ UNCHANGED <<file, handle, packages, ret, loaded>>
    /\ LET package == __get_package(packages, package_name)
       IN  IF package.raised # ""
           THEN /\ last' = Call("update_dependency", package_name, package.raised, "", <<>>)
                /\ UNCHANGED <<heap, expected>>
           ELSE LET a == packages.object.pins[package.package_pin_index].state
                    old == deepcopy(heap, a)
                    written == Overwrite(old.heap, a, new_branch,
                                         new_revision, new_version)
                    new == deepcopy(written, a)
                    old_state == new.heap[old.ref]
                    new_state == new.heap[new.ref]
                IN  /\ heap' = Collect(new.heap, packages, Held)
                    /\ last' = Call("update_dependency", package_name, "",
                                    Notice(old_state, new_state), <<>>)
                    /\ expected' =
                          [expected EXCEPT ![package_name] =
                              Triple(new_branch, new_revision, new_version)]

\* read_dependency(package_name): a copy of the state of the pin; the caller
\* holds it in place of any value it held before.
read_dependency(package_name) ==
    /\ handle = "ok"
    /\ nops < MaxOps
    /\ nops' = nops + 1
    /\ previous' = NoPrevious
    /\ UNCHANGED <<file, handle, packages, loaded, expected>>
    /\ LET package == __get_package(packages, package_name)
       IN  IF package.raised # ""
           THEN /\ last' = Call("read_dependency", package_name, package.raised, "", <<>>)
                /\ UNCHANGED <<heap, ret>>
           ELSE LET a == packages.object.pins[package.package_pin_index].state
                    copy == deepcopy(Collect(heap, packages, {}), a)
                IN  /\ heap' = copy.heap
                    /\ ret' = copy.ref
                    /\ last' = Call("read_dependency", package_name, "", "",
                                    <<copy.ref>>)

\* The caller writes into the dictionary read_dependency gave it.
MutateReturned(key) ==
    /\ ret # 0
    /\ nops < MaxOps
    /\ nops' = nops + 1
    /\ previous' = NoPrevious
    /\ heap' = [heap EXCEPT ![ret] = SetItem(@, key, Str("tampered"))]
    /\ last' = Call("mutate", "", "", "", <<>>)
    /\ UNCHANGED <<file, handle, packages, ret, loaded, expected>>

\* As number_of_dependencies, but pins of one name are counted once.
NumberOfNames(pkgs) ==
    Cardinality({pkgs.object.pins[i].package : i \in DOMAIN pkgs.object.pins})

number_of_dependencies(pkgs) == Len(pkgs.object.pins)

get_number_of_dependencies ==
    /\ handle = "ok"
    /\ nops < MaxOps
    /\ nops' = nops + 1
    /\ previous' = NoPrevious
    /\ last' = Call("get_number_of_dependencies", "", "", "",
                    <<number_of_dependencies(packages)>>)
    /\ UNCHANGED <<file, handle, packages, heap, ret, loaded, expected>>

\* What save writes: the dump, indented by two, and a newline after it.
Written(pkgs, h) == Text(json_dump(pkgs, h), 2, "\n")

\* save(): open(path, 'w') truncates the file, json.dump and write fill it.
\* The open may fail (the file is as it was) and a write may fail (the file
\* is left truncated); nothing is caught.
save(io) ==
    /\ handle = "ok"
    /\ nops < MaxOps
    /\ nops' = nops + 1
    /\ previous' = NoPrevious
    /\ UNCHANGED <<handle, packages, heap, ret, loaded, expected>>
    /\ CASE io = "open fails" ->
              /\ UNCHANGED file
              /\ last' = Call("save", "", "OSError", "Saving", <<>>)
         [] io = "write fails" ->
              /\ file' = Corrupt
              /\ last' = Call("save", "", "OSError", "Saving", <<>>)
         [] io = "ok" ->
              /\ file' = Written(packages, heap)
              /\ last' = Call("save", "", "", "Saving", <<>>)

Next ==
    \/ __init__
    \/ \E package_name \in QueryNames, new_branch \in BranchValues,
          new_revision \in RevisionValues, new_version \in VersionValues :
            update_dependency(package_name, new_branch, new_revision,
                              new_version)
    \/ \E package_name \in QueryNames : read_dependency(package_name)
    \/ \E key \in StateKeys : MutateReturned(key)
    \/ get_number_of_dependencies
    \/ \E io \in {"ok", "open fails", "write fails"} : save(io)

Spec == Init /\ [][Next]_vars

-----------------------------------------------------------------------------
(* Properties                                                              *)

Pins == packages.object.pins
Values == PinValues(packages, heap)
Ok(call, op) == call.op = op /\ call.raised = ""

\* What read_dependency(package_name) hands out, on a document (pkgs, h).
ReadResult(pkgs, h, package_name) ==
    LET package == __get_package(pkgs, package_name)
        copy == deepcopy(h, pkgs.object.pins[package.package_pin_index].state)
    IN  copy.heap[copy.ref]

\* The first index, in list order, of a pin with the given name.
FirstIndex(pins, name) ==
    CHOOSE i \in DOMAIN pins :
        /\ pins[i].package = Str(name)
        /\ \A j \in 1..(i - 1) : pins[j].package # Str(name)

\* C1: constructing a handle on a file whose version is not 1 raises
\* UnsupportedFormatError and leaves the caller without a handle, so that
\* the only call it can make next is another construction; on a file whose
\* version is 1 the construction succeeds.
C1_VersionChecked ==
    [][/\ (last'.op = "__init__" /\ file'.kind = "json") =>
            IF file'.root.version = JNumber(1)
            THEN last'.raised = "" /\ handle' = "ok"
            ELSE last'.raised = "UnsupportedFormatError" /\ handle' = "none"
       /\ handle = "none" => last'.op = "__init__"]_vars

C1_Witness ==
    /\ last.op = "__init__"
    /\ last.raised = "UnsupportedFormatError"
    /\ file.root.version = JNumber(2)
    /\ Len(file.root.object.pins) = 2

\* C2: while a handle is held, whatever calls were made and whether they
\* raised, the in-memory pin count is the length of the pins array as it was
\* loaded, and get_number_of_dependencies() returns it.
C2_PinCountFixed ==
    handle = "ok" =>
        /\ Len(Pins) = Len(loaded)
        /\ last.op = "get_number_of_dependencies" =>
                last.returned = <<Len(loaded)>>

C2_Witness ==
    /\ last.op = "get_number_of_dependencies"
    /\ last.returned = <<2>>
    /\ Pins[1].package = Pins[2].package
    /\ Values # loaded

\* C3: read_dependency(name) on an existing package returns a dictionary
\* equal to the state of the first pin of that name, and writing into the
\* returned dictionary changes no pin of the document.
C3_ReadIsCopy ==
    [][/\ Ok(last', "read_dependency") =>
            /\ ret' # 0
            /\ StateValue(heap'[ret']) =
                   FirstNamed(Values, last'.package_name).state
            /\ Range(heap'[ret'].order) = StateKeys
       /\ last'.op = "mutate" => Values' = Values]_vars

C3_Witness ==
    /\ last.op = "mutate"
    /\ handle = "ok"
    /\ \E i \in DOMAIN Pins :
          /\ Pins[i].package = Str("DatadogSDK")
          /\ StateValue(heap[ret]) # Values[i].state
          /\ Values[i].state = loaded[i].state

\* C4: update_dependency or read_dependency with a name that no pin has
\* raises PinNotFoundError and leaves the document as it was.
C4_MissingPinRaises ==
    [][(/\ last'.op \in {"update_dependency", "read_dependency"}
        /\ last'.package_name \notin NamesOf(Values)) =>
            /\ last'.raised = "PinNotFoundError"
            /\ packages' = packages
            /\ heap' = heap
            /\ file' = file]_vars

C4_Witness ==
    /\ last.op = "update_dependency"
    /\ last.raised = "PinNotFoundError"
    /\ last.package_name = "Alamofire"
    /\ Len(Pins) = 2

\* C5: after a successful update_dependency(X, b, r, v), read_dependency(X)
\* returns exactly {branch: b, revision: r, version: v}, a None among them
\* clearing the field.
C5_UpdateOverwrites ==
    Ok(last, "update_dependency") =>
        LET given == expected[last.package_name]
        IN  items(ReadResult(packages, heap, last.package_name)) =
                {<<"branch", given.branch>>, <<"revision", given.revision>>,
                 <<"version", given.version>>}

C5_Witness ==
    /\ Ok(last, "update_dependency")
    /\ nops = 1
    /\ last.package_name = "DatadogSDK"
    /\ FirstNamed(loaded, "DatadogSDK").state = ReleasedState
    /\ StateValue(ReadResult(packages, heap, "DatadogSDK")) = DogfoodedState

\* C6: a successful update_dependency prints "Updated" exactly when the
\* state of a pin is changed by it, and "up-to-date" otherwise; given the
\* values the pin has, it changes nothing and prints "up-to-date".
C6_NoticeTellsChange ==
    [][Ok(last', "update_dependency") =>
        /\ last'.notice \in {"Updated", "up-to-date"}
        /\ last'.notice = "Updated" <=> Values' # Values
        /\ expected'[last'.package_name] =
              FirstNamed(Values, last'.package_name).state =>
                /\ last'.notice = "up-to-date"
                /\ Values' = Values]_vars

C6_Witness ==
    /\ Ok(last, "update_dependency")
    /\ last.notice = "up-to-date"
    /\ Values = loaded
    /\ Len(Pins) = 2

\* C7: a handle constructed after a save() made on a document that had the
\* pins it was loaded with holds pins with the same names, URLs and states.
C7_RoundTrip ==
    (/\ Ok(last, "__init__")
     /\ Ok(previous.call, "save")
     /\ previous.values = previous.loaded) =>
        Values = previous.loaded

C7_Witness ==
    /\ Ok(last, "__init__")
    /\ Ok(previous.call, "save")
    /\ previous.values = previous.loaded
    /\ nops = 1
    /\ Len(Values) = 2
    /\ packages.order = <<"object", "version">>

\* C8: a successful update_dependency(X, ...) changes the state dictionary
\* of the first pin named X and nothing else: not the version, not a pin's
\* name, URL or place, not the state of another pin (a later pin named X
\* included), not the file.
C8_UpdateFrame ==
    [][Ok(last', "update_dependency") =>
        LET target == Pins[FirstIndex(Pins, last'.package_name)].state
        IN  /\ packages' = packages
            /\ file' = file
            /\ DOMAIN heap' = DOMAIN heap
            /\ \A a \in DOMAIN heap \ {target} : heap'[a] = heap[a]]_vars

C8_Witness ==
    /\ Ok(last, "update_dependency")
    /\ last.notice = "Updated"
    /\ Len(Pins) = 2
    /\ Pins[1].package = Pins[2].package
    /\ Values[1].state # loaded[1].state
    /\ Values[2].state = loaded[2].state

\* C9: only save() changes the file; and a handle constructed after a
\* completed save() reads, for every package name, the state last given to
\* it by update_dependency, or the state it was loaded with if none was.
C9_SavedUpdatesPersist ==
    [][/\ file' # file => last'.op = "save"
       /\ (Ok(last', "__init__") /\ Ok(previous'.call, "save")) =>
            \A name \in DOMAIN previous'.expected :
                StateValue(ReadResult(packages', heap', name)) =
                    previous'.expected[name]]_vars

C9_Witness ==
    /\ Ok(last, "__init__")
    /\ Ok(previous.call, "save")
    /\ Len(Values) = 2
    /\ previous.expected # StatesByName(previous.loaded)
    /\ StatesByName(Values) = previous.expected

\* C10: the pins keep the order they were loaded in: the package names of
\* the in-memory document, and of the file a completed save() wrote, are
\* the sequence of names as loaded.
NameSeq(pv) == [i \in 1..Len(pv) |-> pv[i].package.value]
FileNameSeq(text) ==
    [i \in 1..Len(text.root.object.pins) |->
        text.root.object.pins[i].package.chars]

C10_PinOrderKept ==
    /\ handle = "ok" => NameSeq(Pins) = NameSeq(loaded)
    /\ Ok(last, "save") => FileNameSeq(file) = NameSeq(loaded)

C10_Witness ==
    /\ Ok(last, "save")
    /\ NameSeq(loaded) = <<"Kronos", "DatadogSDK">>
    /\ FileNameSeq(file) = <<"Kronos", "DatadogSDK">>
    /\ Values # loaded

====
